---------------------------- MODULE Spec2Model ----------------------------
(***************************************************************************)
(* The session/animation state controller of the avatar page (the App      *)
(* component): its React state, the handlers the user triggers, the        *)
(* callback bundle handed to the live-session collaborator, the camera     *)
(* handling, the animation commission and the idle-gesture effect.         *)
(*                                                                         *)
(* Every handler is one action up to its first await; each continuation    *)
(* after an await (promise resolved / rejected) and each timer callback is *)
(* an action of its own, because other events may run in between.          *)
(***************************************************************************)
EXTENDS Integers, Sequences, FiniteSets, TLC

\* ------------------------------------------------------------------ bounds
MaxLen == 2            \* longest text typed into the input box
MaxStarts == 2         \* start() calls awaited at the same time
MaxSends == 1          \* send() calls awaited at the same time
MaxStreams == 2        \* camera streams that exist at the same time
MaxPending == 2        \* getUserMedia() calls awaited at the same time
MaxMemTimers == 2      \* memory-note timers pending at the same time
MaxOrphanLoops == 2    \* idle-gesture loops that outlived their effect
TicksPerWindow == 4    \* clock ticks in the memory note's display window

\* ------------------------------------------------------- program constants
MemoryNoteMs == 8000
TickMs == MemoryNoteMs \div TicksPerWindow
MemoryNoteTicks == MemoryNoteMs \div TickMs

\* ------------------------------------------------------------------ values
Null == <<"null">>                 \* JavaScript null, for a string | null slot
Chars == {" ", "a"}
Texts == UNION {[1..n -> Chars] : n \in 0..MaxLen}
Statuses == {"idle", "listening", "speaking"}
AudioLevels == {0, 7}              \* tenths: 0.0 and 0.7
Transcripts == {<<>>, <<"a">>}
Facts == {<<"f1">>, <<"f2">>}
Voices == {"Kore", "Puck"}
Actions == {"glance", "tilt", "shift"}
NoStream == 0
StreamIds == 1..MaxStreams

\* Messages are sequences of phrases, so that String.includes can be modelled.
Includes(msg, phrase) == \E i \in DOMAIN msg : msg[i] = phrase

MicMsg == <<"Microphone access is required for the Neural Bridge.">>
ConnFailedMsg(detail) == <<"Neural Bridge connection failed: ">> \o detail
CameraDeniedMsg == <<"Neural lens access denied.">>
AnimOverloadMsg == <<"Neural animation engine is temporarily overloaded.">>
AnimQuotaMsg == <<"Neural ", "Quota Exhausted", ": You have reached your API limit.">>
AnimGenericMsg == <<"Neural animation failed.">>

StartErrors == {<<"Permission denied">>, <<"NotAllowedError">>, <<"socket closed">>}
SessionErrors == {<<"Model access denied">>, <<"Quota exhausted">>, <<"Connection lost">>}
AnimErrors == {"API_KEY_PERMISSION_DENIED", "API_KEY_EXPIRED", "SERVICE_UNAVAILABLE",
               "QUOTA_EXHAUSTED", "INTERNAL"}
FetchErrors == {"Failed to fetch"}
Urls == {<<"u1">>, <<"u2">>}
ProgressMsgs == {<<"Generating">>, <<"Polling">>, <<"Downloading">>}

\* String.prototype.trim over Chars: strips blanks at both ends.
RECURSIVE TrimLeft(_)
TrimLeft(s) == IF s # <<>> /\ Head(s) = " " THEN TrimLeft(Tail(s)) ELSE s

RECURSIVE TrimRight(_)
TrimRight(s) ==
    IF s # <<>> /\ s[Len(s)] = " " THEN TrimRight(SubSeq(s, 1, Len(s) - 1)) ELSE s

Trim(s) == TrimRight(TrimLeft(s))

RemoveAt(s, i) == SubSeq(s, 1, i - 1) \o SubSeq(s, i + 1, Len(s))

\* ------------------------------------------------------------------- state
VARIABLES
    \* React state of the component
    needsApiKey, audioLevel, status, isVisionSync, facingMode, error, lastMemory,
    textInput, astraResponse, latestResponseRef, isTyping, idleAction,
    enableIdleActions, videoUrl, isAnimating, animationStatus, voiceSettings,
    \* the video element's stream and the camera streams whose tracks run
    srcObject, running,
    \* awaited calls and pending timers
    camPending, attachTimers, memTimers, actionTimer, holdTimer, orphanAction,
    orphanHold, animFetching, animCalling, sendPending,
    \* the live-session collaborator
    svcStarts, svcSession, svcVision, startArgs,
    \* history: the handler that ran last, the latest memory fact and its age
    op, memFact, memAge,
    \* the component's life, the blink loop and the mouth
    mounted, isBlinking, blinkTimers, blinkMs, mouthShape

sessVars == <<isTyping, audioLevel, astraResponse, latestResponseRef>>
inputVars == <<textInput, voiceSettings>>
errVars == <<error, needsApiKey>>
memVars == <<lastMemory, memTimers, memFact, memAge>>
svcVars == <<svcStarts, svcSession, svcVision, startArgs>>
camVars == <<isVisionSync, facingMode, srcObject, running, camPending, attachTimers>>
animVars == <<isAnimating, animFetching, animCalling, animationStatus, videoUrl>>
idleVars == <<idleAction, enableIdleActions, actionTimer, holdTimer, orphanAction,
              orphanHold>>
faceVars == <<mounted, isBlinking, blinkTimers, blinkMs, mouthShape>>

vars == <<status, sessVars, inputVars, errVars, memVars, svcVars, sendPending,
          camVars, animVars, idleVars, faceVars, op>>

isConnected == status # "idle"

\* { scale: 1, skew: 0 }: scale in thousandths, skew in tenths
NeutralMouth == [scale |-> 1000, skew |-> 0]

Init ==
    /\ needsApiKey = FALSE
    /\ audioLevel = 0
    /\ status = "idle"
    /\ isVisionSync = FALSE
    /\ facingMode = "user"
    /\ error = Null
    /\ lastMemory = Null
    /\ textInput = <<>>
    /\ astraResponse = Null
    /\ latestResponseRef = <<>>
    /\ isTyping = FALSE
    /\ idleAction = "none"
    /\ enableIdleActions = TRUE
    /\ videoUrl = Null
    /\ isAnimating = FALSE
    /\ animationStatus = <<>>
    /\ voiceSettings = "Kore"
    /\ srcObject = NoStream
    /\ running = {}
    /\ camPending = <<>>
    /\ attachTimers = 0
    /\ memTimers = <<>>
    /\ actionTimer = TRUE          \* the idle effect's first run schedules a gesture
    /\ holdTimer = FALSE
    /\ orphanAction = 0
    /\ orphanHold = 0
    /\ animFetching = 0
    /\ animCalling = 0
    /\ sendPending = <<>>
    /\ svcStarts = 0
    /\ svcSession = "none"
    /\ svcVision = FALSE
    /\ startArgs = [vision |-> NoStream, options |-> "none"]
    /\ op = <<"mount">>
    /\ memFact = Null
    /\ memAge = 0
    /\ mounted = TRUE
    /\ isBlinking = FALSE
    /\ blinkTimers = <<"delay">>   \* the blink effect's run calls scheduleBlink()
    /\ blinkMs = 0
    /\ mouthShape = NeutralMouth

\* ------------------------------------------------- the idle-gesture effect
\* useEffect(..., [status]): runs when a render commits a changed status. The
\* cleanup of the previous run clears the timer actionTimeout holds; a hold timer
\* (the inner setTimeout) has no handle and stays pending.
IdleActionsEffect(s) ==
    /\ holdTimer => orphanAction + orphanHold < MaxOrphanLoops
    /\ orphanHold' = IF holdTimer THEN orphanHold + 1 ELSE orphanHold
    /\ holdTimer' = FALSE
    /\ IF s # "idle" \/ ~enableIdleActions
         THEN /\ idleAction' = "none"
              /\ actionTimer' = FALSE
         ELSE /\ idleAction' = idleAction
              /\ actionTimer' = TRUE
    /\ UNCHANGED <<enableIdleActions, orphanAction>>

\* setStatus(s) and the effects its render runs.
SetStatus(s) ==
    /\ status' = s
    /\ IF s # status THEN IdleActionsEffect(s) ELSE UNCHANGED idleVars


\* ------------------------------------------------ the live-session service
\* The collaborator delivers the callbacks of a session from the start() call
\* on, in any number and order; nothing in the callback bundle tells a
\* callback whether stop() has been requested since.
CanDeliver == svcStarts > 0 \/ svcSession # "none"

\* The callbacks that arrive after toggleSession requested stop() and before
\* another start() call.
AfterStop == svcSession = "stopped" /\ svcStarts = 0

\* ---------------------------------------------------------- toggleSession
toggleSessionStop ==
    /\ svcSession' = "stopped"                  \* liveService.current.stop()
    /\ svcVision' = FALSE
    /\ SetStatus("idle")
    /\ astraResponse' = Null
    /\ isTyping' = FALSE
    /\ audioLevel' = 0
    /\ UNCHANGED <<latestResponseRef, svcStarts, startArgs, error>>

\* toggleSessionStart with the video element passed whether or not vision is engaged.
toggleSessionStart_AlwaysVision ==
    /\ svcStarts < MaxStarts
    /\ error' = Null
    /\ svcStarts' = svcStarts + 1
    /\ startArgs' = [vision |-> srcObject, options |-> voiceSettings]
    /\ svcVision' = isVisionSync
    /\ UNCHANGED <<status, idleVars, sessVars, svcSession>>

toggleSessionStart ==
    /\ svcStarts < MaxStarts
    /\ error' = Null
    /\ svcStarts' = svcStarts + 1               \* await liveService.current.start(...)
    /\ startArgs' = [vision |-> IF isVisionSync THEN srcObject ELSE NoStream,
                     options |-> voiceSettings]
    /\ svcVision' = isVisionSync
    /\ UNCHANGED <<status, idleVars, sessVars, svcSession>>

toggleSession ==
    /\ op' = <<"toggleSession">>
    /\ UNCHANGED faceVars
    /\ IF status # "idle" THEN toggleSessionStop ELSE toggleSessionStart
    /\ UNCHANGED <<inputVars, needsApiKey, memVars, sendPending, camVars, animVars>>

\* start() resolved: nothing follows the await inside the try block.
toggleSessionResolved ==
    /\ svcStarts > 0
    /\ op' = <<"startResolved">>
    /\ UNCHANGED faceVars
    /\ svcStarts' = svcStarts - 1
    /\ svcSession' = "live"
    /\ UNCHANGED <<status, idleVars, sessVars, inputVars, errVars, memVars, svcVision,
                   startArgs, sendPending, camVars, animVars>>

\* The catch block without setStatus('idle').
toggleSessionRejected_KeepsStatus(msg) ==
    /\ svcStarts > 0
    /\ op' = <<"startRejected", msg>>
    /\ UNCHANGED faceVars
    /\ svcStarts' = svcStarts - 1
    /\ error' = IF Includes(msg, "Permission denied") \/ Includes(msg, "NotAllowedError")
                  THEN MicMsg
                  ELSE ConnFailedMsg(msg)
    /\ UNCHANGED <<status, idleVars, sessVars, inputVars, needsApiKey, memVars, svcSession,
                   svcVision, startArgs, sendPending, camVars, animVars>>

\* start() rejected: the catch block.
toggleSessionRejected(msg) ==
    /\ svcStarts > 0
    /\ op' = <<"startRejected", msg>>
    /\ UNCHANGED faceVars
    /\ svcStarts' = svcStarts - 1
    /\ error' = IF Includes(msg, "Permission denied") \/ Includes(msg, "NotAllowedError")
                  THEN MicMsg
                  ELSE ConnFailedMsg(msg)
    /\ SetStatus("idle")
    /\ UNCHANGED <<sessVars, inputVars, needsApiKey, memVars, svcSession, svcVision,
                   startArgs, sendPending, camVars, animVars>>

\* ------------------------------------------------------ the callback bundle
onAudioLevel(level) ==
    /\ CanDeliver
    /\ op' = <<"onAudioLevel">>
    /\ UNCHANGED faceVars
    /\ audioLevel' = level
    /\ UNCHANGED <<status, idleVars, isTyping, astraResponse, latestResponseRef,
                   inputVars, errVars, memVars, svcVars, sendPending, camVars, animVars>>

\* onStatusChange showing the typing indicator for every state but idle.
onStatusChange_TypingWhenConnected(s) ==
    /\ CanDeliver
    /\ op' = <<"onStatusChange", s>>
    /\ UNCHANGED faceVars
    /\ SetStatus(s)
    /\ isTyping' = IF s # "idle" THEN TRUE ELSE isTyping
    /\ UNCHANGED <<audioLevel, astraResponse, latestResponseRef, inputVars, errVars,
                   memVars, svcVars, sendPending, camVars, animVars>>

onStatusChange(s) ==
    /\ CanDeliver
    /\ op' = <<"onStatusChange", s>>
    /\ UNCHANGED faceVars
    /\ SetStatus(s)
    /\ isTyping' = IF s = "speaking" THEN TRUE ELSE isTyping
    /\ UNCHANGED <<audioLevel, astraResponse, latestResponseRef, inputVars, errVars,
                   memVars, svcVars, sendPending, camVars, animVars>>

\* onError asking for a new credential whatever the message says.
onError_AlwaysReprompt(msg) ==
    /\ CanDeliver
    /\ op' = <<"onError", msg>>
    /\ UNCHANGED faceVars
    /\ error' = msg
    /\ SetStatus("idle")
    /\ isTyping' = FALSE
    /\ needsApiKey' = TRUE
    /\ UNCHANGED <<audioLevel, astraResponse, latestResponseRef, inputVars, memVars,
                   svcVars, sendPending, camVars, animVars>>

onError(msg) ==
    /\ CanDeliver
    /\ op' = <<"onError", msg>>
    /\ UNCHANGED faceVars
    /\ error' = msg
    /\ SetStatus("idle")
    /\ isTyping' = FALSE
    /\ needsApiKey' = IF Includes(msg, "Model access denied") \/ Includes(msg, "Quota exhausted")
                        THEN TRUE
                        ELSE needsApiKey
    /\ UNCHANGED <<audioLevel, astraResponse, latestResponseRef, inputVars, memVars,
                   svcVars, sendPending, camVars, animVars>>

onMemoryUpdate(fact) ==
    /\ CanDeliver
    /\ Len(memTimers) < MaxMemTimers
    /\ op' = <<"onMemoryUpdate">>
    /\ UNCHANGED faceVars
    /\ lastMemory' = fact
    /\ memTimers' = Append(memTimers, MemoryNoteTicks)   \* setTimeout(..., 8000)
    /\ memFact' = fact
    /\ memAge' = 0
    /\ UNCHANGED <<status, idleVars, sessVars, inputVars, errVars, svcVars, sendPending,
                   camVars, animVars>>

\* onTranscription adding the callback's text to the text already shown.
onTranscription_Appends(text) ==
    /\ CanDeliver
    /\ op' = <<"onTranscription", text>>
    /\ UNCHANGED faceVars
    /\ astraResponse' = (IF astraResponse = Null THEN <<>> ELSE astraResponse) \o text
    /\ latestResponseRef' = text
    /\ isTyping' = IF Len(text) > 0 THEN FALSE ELSE isTyping
    /\ UNCHANGED <<status, idleVars, audioLevel, inputVars, errVars, memVars, svcVars,
                   sendPending, camVars, animVars>>

onTranscription(text) ==
    /\ CanDeliver
    /\ op' = <<"onTranscription", text>>
    /\ UNCHANGED faceVars
    /\ astraResponse' = text
    /\ latestResponseRef' = text
    /\ isTyping' = IF Len(text) > 0 THEN FALSE ELSE isTyping
    /\ UNCHANGED <<status, idleVars, audioLevel, inputVars, errVars, memVars, svcVars,
                   sendPending, camVars, animVars>>

onTurnComplete ==
    /\ CanDeliver
    /\ op' = <<"onTurnComplete">>
    /\ UNCHANGED faceVars
    /\ SetStatus("idle")
    /\ isTyping' = FALSE
    /\ latestResponseRef' = <<>>
    /\ UNCHANGED <<audioLevel, astraResponse, inputVars, errVars, memVars, svcVars,
                   sendPending, camVars, animVars>>

\* ------------------------------------------------------ the memory note
\* The callback of setTimeout(() => setLastMemory(null), 8000).
memoryTimerFired(i) ==
    /\ i \in DOMAIN memTimers
    /\ memTimers[i] = 0
    /\ op' = <<"memoryTimer">>
    /\ UNCHANGED faceVars
    /\ lastMemory' = Null
    /\ memTimers' = RemoveAt(memTimers, i)
    /\ UNCHANGED <<status, idleVars, sessVars, inputVars, errVars, memFact, memAge,
                   svcVars, sendPending, camVars, animVars>>

\* The clock advances by TickMs; a timer that is due fires first.
Tick ==
    /\ \A i \in DOMAIN memTimers : memTimers[i] > 0
    /\ memTimers # <<>> \/ memAge < MemoryNoteTicks
    /\ op' = <<"tick">>
    /\ UNCHANGED faceVars
    /\ memTimers' = [i \in DOMAIN memTimers |-> memTimers[i] - 1]
    /\ memAge' = IF memAge < MemoryNoteTicks THEN memAge + 1 ELSE memAge
    /\ UNCHANGED <<status, idleVars, sessVars, inputVars, errVars, lastMemory, memFact,
                   svcVars, sendPending, camVars, animVars>>

\* ------------------------------------------------------ handleSendMessage
setTextInput(t) ==
    /\ op' = <<"setTextInput">>
    /\ UNCHANGED faceVars
    /\ textInput' = t
    /\ UNCHANGED <<status, idleVars, sessVars, voiceSettings, errVars, memVars, svcVars,
                   sendPending, camVars, animVars>>

handleSendMessageSend ==
    /\ Len(sendPending) < MaxSends
    /\ isTyping' = TRUE
    /\ astraResponse' = Null
    /\ sendPending' = Append(sendPending, textInput)   \* await liveService.current.send
    /\ UNCHANGED <<audioLevel, latestResponseRef>>

\* handleSendMessage without the isConnected test.
handleSendMessage_NoConnectionCheck ==
    /\ op' = <<"handleSendMessage">>
    /\ UNCHANGED faceVars
    /\ IF Trim(textInput) = <<>>
         THEN UNCHANGED <<sessVars, sendPending>>
         ELSE handleSendMessageSend
    /\ UNCHANGED <<status, idleVars, inputVars, errVars, memVars, svcVars, camVars,
                   animVars>>

handleSendMessage ==
    /\ op' = <<"handleSendMessage">>
    /\ UNCHANGED faceVars
    /\ IF Trim(textInput) = <<>> \/ ~isConnected
         THEN UNCHANGED <<sessVars, sendPending>>
         ELSE handleSendMessageSend
    /\ UNCHANGED <<status, idleVars, inputVars, errVars, memVars, svcVars, camVars,
                   animVars>>

handleSendMessageResolved(i) ==
    /\ i \in DOMAIN sendPending
    /\ op' = <<"sendResolved", sendPending[i]>>
    /\ UNCHANGED faceVars
    /\ sendPending' = RemoveAt(sendPending, i)
    /\ textInput' = <<>>
    /\ UNCHANGED <<status, idleVars, sessVars, voiceSettings, errVars, memVars, svcVars,
                   camVars, animVars>>

handleSendMessageRejected(i) ==
    /\ i \in DOMAIN sendPending
    /\ op' = <<"sendRejected", sendPending[i]>>
    /\ UNCHANGED faceVars
    /\ sendPending' = RemoveAt(sendPending, i)
    /\ isTyping' = FALSE
    /\ UNCHANGED <<status, idleVars, audioLevel, astraResponse, latestResponseRef,
                   inputVars, errVars, memVars, svcVars, camVars, animVars>>

\* The settings panel replaces the voice options.
setVoiceSettings(v) ==
    /\ op' = <<"setVoiceSettings">>
    /\ UNCHANGED faceVars
    /\ voiceSettings' = v
    /\ UNCHANGED <<status, idleVars, sessVars, textInput, errVars, memVars, svcVars,
                   sendPending, camVars, animVars>>

\* ------------------------------------------------------ camera handling
OtherMode(mode) == IF mode = "user" THEN "environment" ELSE "user"

\* The stream ids no live object uses: a stopped stream nothing refers to is
\* garbage, and its id names the next stream getUserMedia returns.
FreeStreams == StreamIds \ (running \cup {srcObject})

\* tracks.forEach(t => t.stop()) on the video element's stream
StopTracks == running \ {srcObject}

\* startCamera up to its await: the old tracks are stopped, the stream is
\* requested; isConnected is the value of the render the handler belongs to.
\* by names the handler that called it (history, for the continuation's op).
startCamera(mode, by) ==
    /\ Len(camPending) < MaxPending
    /\ running' = StopTracks
    /\ camPending' = Append(camPending, [mode |-> mode, conn |-> isConnected, by |-> by])
    /\ UNCHANGED <<isVisionSync, facingMode, srcObject, attachTimers, svcVars, error>>

\* getUserMedia resolved with a new stream.
startCameraResolved(i) ==
    /\ i \in DOMAIN camPending
    /\ FreeStreams # {}
    /\ camPending[i].conn => attachTimers < MaxPending
    /\ op' = <<"cameraResolved", camPending[i].by>>
    /\ UNCHANGED faceVars
    /\ LET stream == CHOOSE x \in FreeStreams : \A y \in FreeStreams : x <= y
       IN /\ running' = running \cup {stream}
          /\ srcObject' = IF mounted THEN stream ELSE srcObject   \* if (videoRef.current)
    /\ isVisionSync' = TRUE
    /\ facingMode' = camPending[i].mode
    /\ attachTimers' = IF camPending[i].conn THEN attachTimers + 1 ELSE attachTimers
    /\ camPending' = RemoveAt(camPending, i)
    /\ UNCHANGED <<status, idleVars, sessVars, inputVars, errVars, memVars, svcVars,
                   sendPending, animVars>>

\* The catch block without setIsVisionSync(false).
startCameraRejected_KeepsVision(i) ==
    /\ i \in DOMAIN camPending
    /\ op' = <<"cameraRejected", camPending[i].by>>
    /\ UNCHANGED faceVars
    /\ error' = CameraDeniedMsg
    /\ camPending' = RemoveAt(camPending, i)
    /\ UNCHANGED <<status, idleVars, sessVars, inputVars, needsApiKey, memVars, svcVars,
                   sendPending, isVisionSync, facingMode, srcObject, running,
                   attachTimers, animVars>>

\* getUserMedia rejected: the catch block.
startCameraRejected(i) ==
    /\ i \in DOMAIN camPending
    /\ op' = <<"cameraRejected", camPending[i].by>>
    /\ UNCHANGED faceVars
    /\ error' = CameraDeniedMsg
    /\ isVisionSync' = FALSE
    /\ camPending' = RemoveAt(camPending, i)
    /\ UNCHANGED <<status, idleVars, sessVars, inputVars, needsApiKey, memVars, svcVars,
                   sendPending, facingMode, srcObject, running, attachTimers, animVars>>

\* The callback of setTimeout(() => liveService.current.setVision(...), 500).
setVisionTimerFired ==
    /\ attachTimers > 0
    /\ op' = <<"setVisionTimer">>
    /\ UNCHANGED faceVars
    /\ attachTimers' = attachTimers - 1
    /\ svcVision' = mounted                     \* setVision(videoRef.current)
    /\ UNCHANGED <<status, idleVars, sessVars, inputVars, errVars, memVars, svcStarts,
                   svcSession, startArgs, sendPending, isVisionSync, facingMode,
                   srcObject, running, camPending, animVars>>

toggleVisionOff ==
    /\ isVisionSync' = FALSE
    /\ svcVision' = FALSE                       \* liveService.current.setVision(null)
    /\ running' = StopTracks
    /\ srcObject' = NoStream
    /\ UNCHANGED <<facingMode, camPending, attachTimers, svcStarts, svcSession,
                   startArgs, error>>

toggleVision ==
    /\ op' = <<"toggleVision">>
    /\ UNCHANGED faceVars
    /\ IF isVisionSync THEN toggleVisionOff ELSE startCamera(facingMode, "toggleVision")
    /\ UNCHANGED <<status, idleVars, sessVars, inputVars, needsApiKey, memVars,
                   sendPending, animVars>>

switchCamera ==
    /\ op' = <<"switchCamera">>
    /\ UNCHANGED faceVars
    /\ startCamera(OtherMode(facingMode), "switchCamera")
    /\ UNCHANGED <<status, idleVars, sessVars, inputVars, needsApiKey, memVars,
                   sendPending, animVars>>

\* ------------------------------------------------------ handleAnimate
\* handleAnimateFinally without setAnimationStatus('').
handleAnimateFinally_KeepsProgress ==
    /\ isAnimating' = FALSE
    /\ animationStatus' = animationStatus

\* finally { setIsAnimating(false); setAnimationStatus('') }
handleAnimateFinally ==
    /\ isAnimating' = FALSE
    /\ animationStatus' = <<>>

\* handleAnimateCatch without the re-prompt of the quota branch.
handleAnimateCatch_QuotaNoReprompt(e) ==
    IF e = "API_KEY_PERMISSION_DENIED" \/ e = "API_KEY_EXPIRED"
      THEN /\ needsApiKey' = TRUE
           /\ error' = error
      ELSE /\ error' = IF e = "SERVICE_UNAVAILABLE" THEN AnimOverloadMsg
                       ELSE IF e = "QUOTA_EXHAUSTED" THEN AnimQuotaMsg
                       ELSE AnimGenericMsg
           /\ needsApiKey' = needsApiKey

\* catch (err): the outcome is classified by err.message.
handleAnimateCatch(e) ==
    IF e = "API_KEY_PERMISSION_DENIED" \/ e = "API_KEY_EXPIRED"
      THEN /\ needsApiKey' = TRUE
           /\ error' = error
      ELSE IF e = "SERVICE_UNAVAILABLE"
        THEN /\ error' = AnimOverloadMsg
             /\ needsApiKey' = needsApiKey
        ELSE IF e = "QUOTA_EXHAUSTED"
          THEN /\ error' = AnimQuotaMsg
               /\ needsApiKey' = TRUE
          ELSE /\ error' = AnimGenericMsg
               /\ needsApiKey' = needsApiKey

\* The try block up to its first await: fetch(ASTRA_AVATAR_URL).
handleAnimateBegin ==
    /\ isAnimating' = TRUE
    /\ error' = Null
    /\ animFetching' = animFetching + 1
    /\ UNCHANGED <<animCalling, animationStatus, videoUrl, needsApiKey>>

\* handleAnimate without the isAnimating guard.
handleAnimate_NoBusyGuard ==
    /\ op' = <<"handleAnimate">>
    /\ UNCHANGED faceVars
    /\ handleAnimateBegin
    /\ UNCHANGED <<status, idleVars, sessVars, inputVars, memVars, svcVars, sendPending,
                   camVars>>

handleAnimate ==
    /\ op' = <<"handleAnimate">>
    /\ UNCHANGED faceVars
    /\ IF isAnimating THEN UNCHANGED <<animVars, errVars>> ELSE handleAnimateBegin
    /\ UNCHANGED <<status, idleVars, sessVars, inputVars, memVars, svcVars, sendPending,
                   camVars>>

\* The image was fetched and encoded: VeoService.animateImage is called.
fetchResolved ==
    /\ animFetching > 0
    /\ op' = <<"fetchResolved">>
    /\ UNCHANGED faceVars
    /\ animFetching' = animFetching - 1
    /\ animCalling' = animCalling + 1
    /\ UNCHANGED <<status, idleVars, sessVars, inputVars, errVars, memVars, svcVars,
                   sendPending, camVars, isAnimating, animationStatus, videoUrl>>

\* The image fetch failed: catch, then finally.
fetchRejected(e) ==
    /\ animFetching > 0
    /\ op' = <<"fetchRejected">>
    /\ UNCHANGED faceVars
    /\ animFetching' = animFetching - 1
    /\ handleAnimateCatch(e)
    /\ handleAnimateFinally
    /\ UNCHANGED <<status, idleVars, sessVars, inputVars, memVars, svcVars, sendPending,
                   camVars, animCalling, videoUrl>>

\* The progress callback (msg) => setAnimationStatus(msg).
onProgress(msg) ==
    /\ animCalling > 0
    /\ op' = <<"onProgress">>
    /\ UNCHANGED faceVars
    /\ animationStatus' = msg
    /\ UNCHANGED <<status, idleVars, sessVars, inputVars, errVars, memVars, svcVars,
                   sendPending, camVars, isAnimating, animFetching, animCalling, videoUrl>>

animateImageResolved(url) ==
    /\ animCalling > 0
    /\ op' = <<"animateImageResolved", url>>
    /\ UNCHANGED faceVars
    /\ animCalling' = animCalling - 1
    /\ videoUrl' = url
    /\ handleAnimateFinally
    /\ UNCHANGED <<status, idleVars, sessVars, inputVars, errVars, memVars, svcVars,
                   sendPending, camVars, animFetching>>

animateImageRejected(e) ==
    /\ animCalling > 0
    /\ op' = <<"animateImageRejected", e>>
    /\ UNCHANGED faceVars
    /\ animCalling' = animCalling - 1
    /\ handleAnimateCatch(e)
    /\ handleAnimateFinally
    /\ UNCHANGED <<status, idleVars, sessVars, inputVars, memVars, svcVars, sendPending,
                   camVars, animFetching, videoUrl>>

\* ApiKeyPrompt's onSelect: the key selection opens and the prompt closes.
onSelect ==
    /\ needsApiKey
    /\ op' = <<"onSelect">>
    /\ UNCHANGED faceVars
    /\ needsApiKey' = FALSE
    /\ UNCHANGED <<status, idleVars, sessVars, inputVars, error, memVars, svcVars,
                   sendPending, camVars, animVars>>

\* ------------------------------------------------------ idle-gesture timers
\* The callback of the timer actionTimeout holds: a gesture is shown and its
\* hold timer set.
actionTimerFired(a) ==
    /\ actionTimer
    /\ op' = <<"actionTimer">>
    /\ UNCHANGED faceVars
    /\ idleAction' = a
    /\ actionTimer' = FALSE
    /\ holdTimer' = TRUE
    /\ UNCHANGED <<status, sessVars, inputVars, errVars, memVars, svcVars, sendPending,
                   camVars, animVars, enableIdleActions, orphanAction, orphanHold>>

\* The hold timer's callback: the gesture ends and scheduleAction() runs again.
holdTimerFired ==
    /\ holdTimer
    /\ op' = <<"holdTimer">>
    /\ UNCHANGED faceVars
    /\ idleAction' = "none"
    /\ holdTimer' = FALSE
    /\ actionTimer' = TRUE
    /\ UNCHANGED <<status, sessVars, inputVars, errVars, memVars, svcVars, sendPending,
                   camVars, animVars, enableIdleActions, orphanAction, orphanHold>>

\* The same two callbacks in a loop whose effect has been cleaned up since its
\* hold timer was set: the timer scheduleAction() sets then is one no cleanup
\* clears.
orphanHoldFired ==
    /\ orphanHold > 0
    /\ op' = <<"holdTimer">>
    /\ UNCHANGED faceVars
    /\ idleAction' = "none"
    /\ orphanHold' = orphanHold - 1
    /\ orphanAction' = orphanAction + 1
    /\ UNCHANGED <<status, sessVars, inputVars, errVars, memVars, svcVars, sendPending,
                   camVars, animVars, enableIdleActions, actionTimer, holdTimer>>

orphanActionFired(a) ==
    /\ orphanAction > 0
    /\ op' = <<"actionTimer">>
    /\ UNCHANGED faceVars
    /\ idleAction' = a
    /\ orphanAction' = orphanAction - 1
    /\ orphanHold' = orphanHold + 1
    /\ UNCHANGED <<status, sessVars, inputVars, errVars, memVars, svcVars, sendPending,
                   camVars, animVars, enableIdleActions, actionTimer, holdTimer>>

\* The settings panel switches idle gestures on or off; the effect's dependency
\* list is [status], so no effect runs.
setEnableIdleActions(b) ==
    /\ op' = <<"setEnableIdleActions">>
    /\ UNCHANGED faceVars
    /\ enableIdleActions' = b
    /\ UNCHANGED <<status, sessVars, inputVars, errVars, memVars, svcVars, sendPending,
                   camVars, animVars, idleAction, actionTimer, holdTimer, orphanAction,
                   orphanHold>>

\* ------------------------------------------------------ the blink loop
\* Math.random() in thousandths: the ends of [0, 1) and the 0.8 threshold.
Randoms == {0, 800, 999}

\* isDoubleBlink ? 200 : (Math.random() * 5000 + 2500), in milliseconds
BlinkDelay(r1, r2) == IF r1 > 800 THEN 200 ELSE (r2 * 5000) \div 1000 + 2500

\* Math.random() * 250 + 100
BlinkDuration_Long(r) == (r * 250) \div 1000 + 100

\* Math.random() * 50 + 100, in milliseconds
BlinkDuration(r) == (r * 50) \div 1000 + 100

ReplaceAt(s, i, e) == [s EXCEPT ![i] = e]

\* The callback of the timer scheduleBlink() set; r1 and r2 are the draws
\* scheduleBlink made for it, so blinkMs is the time this timer waited.
blinkTimeoutFired(i, r1, r2) ==
    /\ i \in DOMAIN blinkTimers
    /\ blinkTimers[i] = "delay"
    /\ op' = <<"blinkTimeout">>
    /\ blinkMs' = BlinkDelay(r1, r2)
    /\ isBlinking' = TRUE
    /\ blinkTimers' = ReplaceAt(blinkTimers, i, "hold")    \* setTimeout(..., blinkDuration)
    /\ UNCHANGED <<mounted, mouthShape, status, idleVars, sessVars, inputVars, errVars,
                   memVars, svcVars, sendPending, camVars, animVars>>

\* The callback of the inner timer; r is the draw made for blinkDuration.
blinkHoldFired(i, r) ==
    /\ i \in DOMAIN blinkTimers
    /\ blinkTimers[i] = "hold"
    /\ op' = <<"blinkHold">>
    /\ blinkMs' = BlinkDuration(r)
    /\ isBlinking' = FALSE
    /\ blinkTimers' = ReplaceAt(blinkTimers, i, "delay")   \* scheduleBlink()
    /\ UNCHANGED <<mounted, mouthShape, status, idleVars, sessVars, inputVars, errVars,
                   memVars, svcVars, sendPending, camVars, animVars>>

\* ------------------------------------------------------ the lip-sync effect
\* A character outside ASCII is written by its code point.
LipChars == {" ", "A", "p", "f", "U+0648", "x"}
\* The empty text, every character alone and every character before a blank.
LipTexts == {<<>>} \cup {<<c>> : c \in LipChars} \cup {<<c, " ">> : c \in LipChars}

vowels == {"a", "e", "o", "U+0622", "U+0627", "U+0648", "u", "i", "U+06CC"}
plosives == {"p", "b", "m", "t", "d", "U+067E", "U+0628", "U+0645", "U+062A", "U+062F"}
fricatives == {"f", "v", "s", "z", "U+0641", "U+0648", "U+0633", "U+0632"}

\* String.prototype.toLowerCase over LipChars
ToLowerCase(c) == IF c = "A" THEN "a" ELSE c

\* astraResponse.slice(-1).toLowerCase()
LastChar_NoTrim(text) == IF text = <<>> THEN "" ELSE ToLowerCase(text[Len(text)])

\* astraResponse.trim().slice(-1).toLowerCase()
LastChar(text) ==
    LET t == Trim(text) IN IF t = <<>> THEN "" ELSE ToLowerCase(t[Len(t)])

\* The shape the effect sets for a render with status s and response text;
\* r is the draw of Math.random() the vowel branch makes.
MouthShape(s, text, r) ==
    IF s # "speaking" \/ text = Null \/ text = <<>>
      THEN NeutralMouth
      ELSE LET lastChar == LastChar(text)
           IN IF lastChar \in vowels
                THEN [scale |-> 1200 + (r * 100) \div 1000, skew |-> 15]
                ELSE IF lastChar \in plosives
                       THEN [scale |-> 850, skew |-> -5]
                       ELSE IF lastChar \in fricatives
                              THEN [scale |-> 1050, skew |-> 8]
                              ELSE [scale |-> 1100, skew |-> 3]

\* useEffect(..., [astraResponse, status]): runs after the render that
\* committed the values it reads.
lipSyncEffect(r) ==
    /\ mounted
    /\ op' = <<"lipSync">>
    /\ mouthShape' = MouthShape(status, astraResponse, r)
    /\ UNCHANGED <<mounted, isBlinking, blinkTimers, blinkMs, status, idleVars, sessVars,
                   inputVars, errVars, memVars, svcVars, sendPending, camVars, animVars>>

\* ------------------------------------------------------ unmount
\* The cleanups React runs when the component goes away: stop() of the mount
\* effect, clearTimeout(blinkTimeout) of the blink effect and, when the idle
\* effect's last run scheduled a gesture, its clearTimeout(actionTimeout).
\* After it the state variables hold what the setters were last called with.
unmount ==
    /\ mounted
    /\ holdTimer => orphanAction + orphanHold < MaxOrphanLoops
    /\ op' = <<"unmount">>
    /\ mounted' = FALSE
    /\ svcSession' = IF svcSession = "none" /\ svcStarts = 0 THEN "none" ELSE "stopped"
    /\ svcVision' = FALSE
    /\ blinkTimers' = SelectSeq(blinkTimers, LAMBDA k : k # "delay")
    /\ actionTimer' = FALSE
    /\ orphanHold' = IF holdTimer THEN orphanHold + 1 ELSE orphanHold
    /\ holdTimer' = FALSE
    /\ UNCHANGED <<isBlinking, blinkMs, mouthShape, status, idleAction, enableIdleActions,
                   orphanAction, sessVars, inputVars, errVars, memVars, svcStarts,
                   startArgs, sendPending, camVars, animVars>>

\* ------------------------------------------------------ specifications
NextSession ==
    \/ toggleSession
    \/ toggleSessionResolved
    \/ \E msg \in StartErrors : toggleSessionRejected(msg)
    \/ \E level \in AudioLevels : onAudioLevel(level)
    \/ \E s \in Statuses : onStatusChange(s)
    \/ \E msg \in SessionErrors : onError(msg)
    \/ \E text \in Transcripts : onTranscription(text)
    \/ onTurnComplete

SpecSession == Init /\ [][NextSession]_vars


NextCamera ==
    \/ toggleVision
    \/ switchCamera
    \/ \E i \in 1..MaxPending : startCameraResolved(i)
    \/ \E i \in 1..MaxPending : startCameraRejected(i)

SpecCamera == Init /\ [][NextCamera]_vars

NextSend ==
    \/ \E t \in Texts : setTextInput(t)
    \/ handleSendMessage
    \/ \E i \in 1..MaxSends : handleSendMessageResolved(i)
    \/ \E i \in 1..MaxSends : handleSendMessageRejected(i)
    \/ toggleSession
    \/ \E s \in {"listening", "idle"} : onStatusChange(s)

SpecSend == Init /\ [][NextSend]_vars

NextVision ==
    \/ toggleVision
    \/ switchCamera
    \/ \E i \in 1..MaxPending : startCameraResolved(i)
    \/ \E i \in 1..MaxPending : startCameraRejected(i)
    \/ toggleSession
    \/ toggleSessionResolved
    \/ \E v \in Voices : setVoiceSettings(v)

SpecVision == Init /\ [][NextVision]_vars

NextMemory ==
    \/ toggleSession
    \/ toggleSessionResolved
    \/ \E fact \in Facts : onMemoryUpdate(fact)
    \/ \E i \in 1..MaxMemTimers : memoryTimerFired(i)
    \/ Tick

SpecMemory == Init /\ [][NextMemory]_vars

NextAnim ==
    \/ handleAnimate
    \/ fetchResolved
    \/ \E e \in FetchErrors : fetchRejected(e)
    \/ \E msg \in ProgressMsgs : onProgress(msg)
    \/ \E url \in Urls : animateImageResolved(url)
    \/ \E e \in AnimErrors : animateImageRejected(e)
    \/ onSelect
    \/ toggleSession
    \/ \E msg \in StartErrors : toggleSessionRejected(msg)

SpecAnim == Init /\ [][NextAnim]_vars

\* The fetch and the animation collaborator settle every call.
SpecAnimLive ==
    /\ SpecAnim
    /\ WF_vars(fetchResolved \/ \E e \in FetchErrors : fetchRejected(e))
    /\ WF_vars(\/ \E url \in Urls : animateImageResolved(url)
               \/ \E e \in AnimErrors : animateImageRejected(e))

NextIdle ==
    \/ toggleSession
    \/ \E s \in Statuses : onStatusChange(s)
    \/ onTurnComplete
    \/ \E a \in Actions : actionTimerFired(a)
    \/ holdTimerFired
    \/ orphanHoldFired
    \/ \E a \in Actions : orphanActionFired(a)
    \/ \E b \in BOOLEAN : setEnableIdleActions(b)

SpecIdle == Init /\ [][NextIdle]_vars

\* The mouth: a session whose transcriptions end in every kind of character.
NextLip ==
    \/ toggleSession
    \/ \E s \in Statuses : onStatusChange(s)
    \/ \E text \in LipTexts : onTranscription(text)
    \/ \E r \in Randoms : lipSyncEffect(r)

SpecLip == Init /\ [][NextLip]_vars

\* The blink loop next to a session and the idle-gesture timers.
NextBlink ==
    \/ \E i \in 1..MaxPending, r1 \in Randoms, r2 \in Randoms : blinkTimeoutFired(i, r1, r2)
    \/ \E i \in 1..MaxPending, r \in Randoms : blinkHoldFired(i, r)
    \/ toggleSession
    \/ \E s \in Statuses : onStatusChange(s)
    \/ \E a \in Actions : actionTimerFired(a)
    \/ holdTimerFired

SpecBlink == Init /\ [][NextBlink]_vars

\* Timers whose time has come fire.
SpecBlinkLive ==
    /\ SpecBlink
    /\ WF_vars(\E i \in 1..MaxPending, r1 \in Randoms, r2 \in Randoms :
                  blinkTimeoutFired(i, r1, r2))
    /\ WF_vars(\E i \in 1..MaxPending, r \in Randoms : blinkHoldFired(i, r))

\* The camera next to a session: the delayed attach of the vision source.
NextAttach ==
    \/ toggleSession
    \/ \E s \in {"listening", "idle"} : onStatusChange(s)
    \/ toggleVision
    \/ switchCamera
    \/ \E i \in 1..MaxPending : startCameraResolved(i)
    \/ \E i \in 1..MaxPending : startCameraRejected(i)
    \/ setVisionTimerFired

SpecAttach == Init /\ [][NextAttach]_vars

\* The component's life: the user and the session act while it is mounted;
\* awaited calls settle and timers fire whether it is mounted or not. The
\* memory-note timers stay pending here (SpecMemory has their clock).
NextUnmount ==
    \/ mounted /\ toggleSession
    \/ mounted /\ onStatusChange("listening")
    \/ mounted /\ toggleVision
    \/ mounted /\ onMemoryUpdate(<<"f1">>)
    \/ unmount
    \/ \E i \in 1..MaxPending : startCameraResolved(i)
    \/ setVisionTimerFired
    \/ actionTimerFired("glance")
    \/ holdTimerFired
    \/ orphanHoldFired
    \/ \E i \in 1..MaxPending : blinkTimeoutFired(i, 999, 0)
    \/ \E i \in 1..MaxPending : blinkHoldFired(i, 0)

SpecUnmount == Init /\ [][NextUnmount]_vars

\* ------------------------------------------------------------------ claims
Callbacks == {"onStatusChange", "onTranscription", "onAudioLevel", "onError",
              "onMemoryUpdate", "onTurnComplete"}

\* A step of one of the five handlers that set SessionState to idle.
MakesIdle ==
    /\ status' = "idle"
    /\ \/ op'[1] \in {"onTurnComplete", "onError", "onStatusChange", "startRejected"}
       \/ op'[1] = "toggleSession" /\ status # "idle"

\* C1: SessionState is always idle, listening or speaking, and every step that
\* makes it idle (toggleSession's stop, onTurnComplete, onError,
\* onStatusChange(idle), a failed start) leaves typing false and the audio
\* level 0.
C1_IdleClearsTypingAndAudio ==
    /\ [](status \in Statuses)
    /\ [][MakesIdle => (isTyping' = FALSE /\ audioLevel' = 0)]_vars

\* C2: after toggleSession has requested stop(), and until another start() call,
\* a callback of the stopped session changes neither SessionState nor the
\* transcript, typing, audio level, error or memory note.
C2_CallbacksAfterStopIgnored ==
    [][(AfterStop /\ op'[1] \in Callbacks)
         => UNCHANGED <<status, astraResponse, isTyping, audioLevel, error, lastMemory>>]_vars

\* C3: under every interleaving of toggleVision, switchCamera and startCamera at
\* most one camera stream has running tracks.
C3_AtMostOneRunningStream == Cardinality(running) <= 1

\* C4: the memory note stays displayed for the full 8 seconds counted from the
\* latest memory update.
C4_NoteShownEightSecondsFromLatest ==
    (memFact # Null /\ memAge < MemoryNoteTicks) => lastMemory = memFact

\* C5: at most one animation commission is in flight, and a handleAnimate call
\* made while busy starts no fetch, calls no collaborator and leaves the video
\* URL, the progress string, the error and the busy flag unchanged.
C5_BusyRequestDropped ==
    /\ [](animFetching + animCalling <= 1)
    /\ []((animFetching + animCalling = 1) <=> isAnimating)
    /\ [][(op'[1] = "handleAnimate" /\ isAnimating) => UNCHANGED <<animVars, errVars>>]_vars

\* A handleAnimate call has just been made while the collaborator was working.
C5_Witness ==
    /\ op = <<"handleAnimate">>
    /\ isAnimating
    /\ animCalling = 1
    /\ animationStatus # <<>>

AnimFailed == op'[1] \in {"fetchRejected", "animateImageRejected"}

\* C6: every started commission ends, and ends with busy false and progress
\* empty whatever the outcome; a success stores the returned URL, a failure
\* leaves the stored URL as it was.
C6_CommissionCompletes ==
    /\ [][(AnimFailed \/ op'[1] = "animateImageResolved")
            => (isAnimating' = FALSE /\ animationStatus' = <<>>)]_vars
    /\ [][op'[1] = "animateImageResolved" => videoUrl' = op'[2]]_vars
    /\ [][AnimFailed => videoUrl' = videoUrl]_vars
    /\ (isAnimating ~> ~isAnimating)

\* A commission has failed after an earlier one stored a video URL.
C6_Witness ==
    /\ op[1] = "animateImageRejected"
    /\ ~isAnimating
    /\ animationStatus = <<>>
    /\ videoUrl \in Urls

\* C7: a failure of the animation collaborator is classified by its identifier.
C7_FailureClassified ==
    [][op'[1] = "animateImageRejected" =>
         LET e == op'[2] IN
         /\ e = "QUOTA_EXHAUSTED" => (Includes(error', "Quota Exhausted") /\ needsApiKey')
         /\ e \in {"API_KEY_PERMISSION_DENIED", "API_KEY_EXPIRED"} => needsApiKey'
         /\ e = "SERVICE_UNAVAILABLE" =>
              (error' = AnimOverloadMsg /\ needsApiKey' = needsApiKey)
         /\ e \notin {"QUOTA_EXHAUSTED", "API_KEY_PERMISSION_DENIED", "API_KEY_EXPIRED",
                      "SERVICE_UNAVAILABLE"} =>
              (error' = AnimGenericMsg /\ needsApiKey' = needsApiKey)]_vars

\* The collaborator has just failed with QUOTA_EXHAUSTED.
C7_Witness ==
    /\ op = <<"animateImageRejected", "QUOTA_EXHAUSTED">>
    /\ Includes(error, "Quota Exhausted")
    /\ needsApiKey

\* C8: handleSendMessage with blank or whitespace-only text, or while idle, sends
\* nothing and changes neither the input, typing, the response text nor the error.
C8_BlankOrIdleSendIsNoOp ==
    [][(op'[1] = "handleSendMessage" /\ (Trim(textInput) = <<>> \/ status = "idle"))
         => UNCHANGED <<sendPending, textInput, isTyping, astraResponse, error>>]_vars

\* handleSendMessage has just been called with a non-blank text while idle.
C8_Witness ==
    /\ op = <<"handleSendMessage">>
    /\ status = "idle"
    /\ Trim(textInput) # <<>>
    /\ sendPending = <<>>

\* C9: a start() call passes a vision source exactly when the vision link is
\* engaged, the video element's stream then, and the current voice options.
C9_StartPassesVisionIffEngaged ==
    [][svcStarts' = svcStarts + 1 =>
         /\ (startArgs'.vision # NoStream) <=> isVisionSync
         /\ isVisionSync => startArgs'.vision = srcObject
         /\ startArgs'.options = voiceSettings]_vars

\* A session has just been started with vision engaged and a changed voice.
C9_Witness ==
    /\ op = <<"toggleSession">>
    /\ svcStarts > 0
    /\ isVisionSync
    /\ startArgs.vision # NoStream
    /\ startArgs.options = "Puck"

\* C10: outside (idle and idle gestures enabled) no gesture is shown and no
\* idle-gesture timer is pending.
C10_GestureOnlyWhileIdleAndEnabled ==
    (status # "idle" \/ ~enableIdleActions) =>
        /\ idleAction = "none"
        /\ ~actionTimer /\ ~holdTimer
        /\ orphanAction = 0 /\ orphanHold = 0

\* C12: when the camera acquisition of startCamera fails, the error slot holds
\* the camera-access-denied message, the vision link is disengaged and the
\* facing mode is what it was, whether the failed request came from
\* toggleVision (vision disengaged) or from switchCamera (vision engaged).
C12_CameraFailureHandled ==
    [][op'[1] = "cameraRejected" =>
         /\ error' = CameraDeniedMsg
         /\ ~isVisionSync'
         /\ facingMode' = facingMode]_vars

\* A switchCamera request failed while the video element still held the
\* stream of the engaged link.
C12_Witness ==
    /\ op = <<"cameraRejected", "switchCamera">>
    /\ srcObject # NoStream
    /\ ~isVisionSync
    /\ error = CameraDeniedMsg

\* C13: the facing mode changes only through switchCamera: every step that
\* changes it is the success of a switchCamera request, and every success of
\* a switchCamera request flips it.
C13_FacingModeOnlyBySwitch ==
    [][/\ facingMode' # facingMode => op' = <<"cameraResolved", "switchCamera">>
       /\ op' = <<"cameraResolved", "switchCamera">> =>
            facingMode' = OtherMode(facingMode)]_vars

\* C14: onError stores its message in the error slot whatever the slot held,
\* makes the state idle and clears typing; it raises the credential-reprompt
\* flag when the message names a model access denial or a quota exhaustion,
\* and leaves the flag as it was for every other message.
C14_OnErrorStoresAndClassifies ==
    [][op'[1] = "onError" =>
         /\ error' = op'[2]
         /\ status' = "idle"
         /\ ~isTyping'
         /\ needsApiKey' = IF \/ Includes(op'[2], "Model access denied")
                               \/ Includes(op'[2], "Quota exhausted")
                             THEN TRUE
                             ELSE needsApiKey]_vars

\* An error that asks for no new credential arrived in a live session.
C14_Witness ==
    /\ op = <<"onError", <<"Connection lost">>>>
    /\ error = <<"Connection lost">>
    /\ ~needsApiKey
    /\ status = "idle"
    /\ svcSession = "live"

\* C15: when start() fails the state is idle afterwards, whatever the status
\* callbacks of the failed session made it; the error slot holds the
\* microphone message for a permission failure and the connection-failure
\* message with the failure's text otherwise; no start() call is made.
C15_FailedStartEndsIdle ==
    [][op'[1] = "startRejected" =>
         /\ status' = "idle"
         /\ error' = IF \/ Includes(op'[2], "Permission denied")
                          \/ Includes(op'[2], "NotAllowedError")
                       THEN MicMsg
                       ELSE <<"Neural Bridge connection failed: ">> \o op'[2]
         /\ svcStarts' = svcStarts - 1
         /\ startArgs' = startArgs]_vars

\* A start failed after a status callback of it had shown the typing
\* indicator, and the state is idle.
C15_Witness ==
    /\ op = <<"startRejected", <<"socket closed">>>>
    /\ isTyping
    /\ status = "idle"
    /\ error = <<"Neural Bridge connection failed: ", "socket closed">>

\* C16 as the specification states it: every transcription callback replaces
\* the displayed response text, and a turn-complete callback leaves the
\* displayed response text empty.
C16_TurnCompleteClearsResponse ==
    [][/\ op'[1] = "onTranscription" => astraResponse' = op'[2]
       /\ op'[1] = "onTurnComplete" => astraResponse' \in {Null, <<>>}]_vars

\* C16 as the code has it: every transcription callback replaces the
\* displayed response text; a turn-complete callback empties the internal
\* last-response tracking and leaves the displayed response text as it is.
C16_ResponseOverwrittenRefCleared ==
    [][/\ op'[1] = "onTranscription" =>
            astraResponse' = op'[2] /\ latestResponseRef' = op'[2]
       /\ op'[1] = "onTurnComplete" =>
            astraResponse' = astraResponse /\ latestResponseRef' = <<>>]_vars

\* A turn completed and its response is still displayed.
C16_Witness ==
    /\ op = <<"onTurnComplete">>
    /\ astraResponse = <<"a">>
    /\ latestResponseRef = <<>>

\* C17: the status-change callback writes the state and sets typing exactly
\* when the new state is speaking; a transcription with text clears typing
\* and an empty transcription leaves typing as it was.
C17_TypingFollowsCallbacks ==
    [][/\ op'[1] = "onStatusChange" =>
            /\ status' = op'[2]
            /\ isTyping' = (op'[2] = "speaking" \/ isTyping)
       /\ op'[1] = "onTranscription" =>
            isTyping' = (op'[2] = <<>> /\ isTyping)]_vars

\* An empty transcription arrived while typing was shown, and typing stays.
C17_Witness ==
    /\ op = <<"onTranscription", <<>>>>
    /\ isTyping
    /\ status = "speaking"

\* C18: the mouth shape is set by the lip-sync effect only, from the state and
\* the response text only: neutral when the state is not speaking or there is
\* no response text; while speaking, by the last character of the trimmed,
\* lower-cased text: a vowel gives skew 1.5 and a scale in [1.2, 1.3), a
\* plosive (0.85, -0.5), a fricative that is no vowel (1.05, 0.8), any other
\* character (1.1, 0.3).
C18_MouthShapeByLastChar ==
    [][/\ mouthShape' # mouthShape => op'[1] = "lipSync"
       /\ op'[1] = "lipSync" =>
            LET none == astraResponse \in {Null, <<>>}
                t == IF none THEN <<>> ELSE Trim(astraResponse)
                c == IF t = <<>> THEN "" ELSE ToLowerCase(t[Len(t)])
                shape == mouthShape'
            IN IF status # "speaking" \/ none
                 THEN shape = [scale |-> 1000, skew |-> 0]
                 ELSE /\ c \in vowels =>
                           shape.skew = 15 /\ shape.scale \in 1200..1299
                      /\ c \in plosives => shape = [scale |-> 850, skew |-> -5]
                      /\ c \in fricatives \ vowels =>
                           shape = [scale |-> 1050, skew |-> 8]
                      /\ c \notin vowels \cup plosives \cup fricatives =>
                           shape = [scale |-> 1100, skew |-> 3]]_vars

\* While speaking, a text that ends in a capital vowel and a blank opened
\* the mouth wide.
C18_Witness ==
    /\ op = <<"lipSync">>
    /\ status = "speaking"
    /\ astraResponse = <<"A", " ">>
    /\ mouthShape.skew = 15
    /\ mouthShape.scale = 1299

\* C19: the blink loop runs on its own: only its two timer callbacks change
\* the blink flag or the blink timers, exactly one blink timer is pending at
\* any time, the flag is true exactly during the hold, every hold lasts
\* between 100 and 149 ms, every delay is 200 ms or between 2500 and 7499 ms,
\* and a blink that began always ends and is followed by another.
C19_BlinkLoopFreeRunning ==
    /\ [][/\ isBlinking' # isBlinking \/ blinkTimers' # blinkTimers =>
               op'[1] \in {"blinkTimeout", "blinkHold"}
          /\ Len(blinkTimers') = 1
          /\ isBlinking' = (blinkTimers'[1] = "hold")
          /\ op'[1] = "blinkHold" => ~isBlinking' /\ blinkMs' \in 100..149
          /\ op'[1] = "blinkTimeout" =>
               isBlinking' /\ (blinkMs' = 200 \/ blinkMs' \in 2500..7499)]_vars
    /\ isBlinking ~> ~isBlinking
    /\ ~isBlinking ~> isBlinking

\* A blink of the longest duration ended while the session was speaking and
\* an idle-gesture hold timer of an earlier idle period was still pending.
C19_Witness ==
    /\ op = <<"blinkHold">>
    /\ blinkMs = 149
    /\ ~isBlinking
    /\ status = "speaking"
    /\ orphanHold > 0

\* C20: whenever the vision link is disengaged, the live session has no
\* vision source attached.
C20_NoVisionSourceWhileDisengaged == ~isVisionSync => ~svcVision

\* C11: unmounting cancels every pending timer and releases the camera: once
\* the component is unmounted no camera track is running, no blink,
\* idle-gesture, memory-note or vision-attach timer is pending, and no
\* callback of such a timer runs.
C11_UnmountCancelsTimersAndCamera ==
    [][/\ ~mounted' =>
            /\ running' = {}
            /\ blinkTimers' = <<>>
            /\ ~actionTimer' /\ ~holdTimer' /\ orphanAction' = 0 /\ orphanHold' = 0
            /\ memTimers' = <<>>
            /\ attachTimers' = 0
       /\ ~mounted => op'[1] \notin {"blinkTimeout", "blinkHold", "actionTimer",
                                     "holdTimer", "memoryTimer", "setVisionTimer"}]_vars

\* C21: toggleSession calls start() only when no earlier start() is awaited
\* and no started session is waiting to be stopped.
C21_NoStartWhileStartedOrPending ==
    [][op'[1] = "toggleSession" /\ svcStarts' > svcStarts =>
         svcStarts = 0 /\ svcSession # "live"]_vars

\* C22: handleSendMessage clears only the text it sent: when send() succeeds
\* the input is emptied if it still holds the sent text and kept if the user
\* has changed it since, and typing is left as it is; when send() fails the
\* input, the state and the error slot are kept and typing is false.
C22_SendClearsOnlySentText ==
    [][/\ op'[1] = "sendResolved" =>
            /\ textInput' = IF textInput = op'[2] THEN <<>> ELSE textInput
            /\ isTyping' = isTyping
       /\ op'[1] = "sendRejected" =>
            /\ textInput' = textInput
            /\ ~isTyping'
            /\ status' = status
            /\ error' = error]_vars

=============================================================================
